---- MODULE Spec2Model ----
(***************************************************************************)
(* The HTTP client layer of kitabghar-frontend (src/api/advancedAxios.js): *)
(* the axios instance `api` with its request and response interceptors,    *)
(* the token refresh on 401, the response cache behind apiWrapper.get and  *)
(* its invalidation by apiWrapper.put / apiWrapper.delete, and the retry   *)
(* helper retryRequest behind apiWrapper.post; with it the session store   *)
(* (context/AuthContext.js), the axios instances of libraryAPI.js and      *)
(* adminAPI.js, and the book search of components/ExampleComponents.jsx.   *)
(*                                                                         *)
(* Eleven specifications share the variables:                              *)
(*   Spec          requests through the axios instance (interceptors,      *)
(*                 localStorage, navigation);                              *)
(*   SpecCache     apiWrapper.get / put / delete over the response cache;  *)
(*   SpecRetry     apiWrapper.post over retryRequest;                      *)
(*   SpecSession   login, logout and checkAuthStatus of AuthProvider with  *)
(*                 the requests of every axios instance;                   *)
(*   SpecClassify  the status switch of the response interceptor on every  *)
(*                 failed response;                                        *)
(*   SpecSearch    the debounced book search and its responses;            *)
(*   SpecIssue     the selection and issue of a book in UserPage;          *)
(*   SpecBatch     batchRequests over Promise.allSettled;                  *)
(*   SpecApiHook   the hook useApi under mount, dependency changes,        *)
(*                 execute and unmount;                                    *)
(*   SpecAsyncHook the hook useAsync under overlapping calls of execute;   *)
(*   SpecPager     the hook usePagination under page moves and changes     *)
(*                 of the data list and of itemsPerPage.                   *)
(* JavaScript strings that the code searches or splits are sequences of    *)
(* one-character strings.                                                  *)
(***************************************************************************)
EXTENDS Integers, Sequences, FiniteSets, TLC

VARIABLES
    storage,    \* localStorage: adminToken, adminUser, refreshToken, token
    location,   \* window.location.href as set by the client
    req,        \* the requests sent through the axios instance `api`
    cache,      \* the Map `cache`: key -> [data, timestamp]
    now,        \* Date.now()
    call,       \* the calls of apiWrapper.get / put / delete
    post,       \* the calls of apiWrapper.post (retryRequest)
    session,    \* the state of AuthProvider and of its checkAuthStatus
    lreq,       \* the requests through the instances of libraryAPI / adminAPI
    ui,         \* the book search component: its requests and its list
    probe,      \* a failed response handed to the status switch
    userPage,   \* UserPage: the books it lists, its selection, its requests
    batch,      \* a call of batchRequests
    apiHook,    \* a component using useApi
    asyncHook,  \* a component using useAsync
    pager       \* a component using usePagination

vars ==
    <<storage, location, req, cache, now, call, post, session, lreq, ui,
      probe, userPage, batch, apiHook, asyncHook, pager>>

\* JavaScript null / undefined (localStorage.getItem of a missing slot,
\* a missing header, getCachedData's miss).
Null == "null"

\* ------------------------------------------------------------------------
\* 1. The axios instance, its interceptors and the token refresh
\* ------------------------------------------------------------------------

\* The requests that may be in flight at once.
Reqs == {"r1", "r2"}

\* The token a login stored, and the tokens POST /auth/refresh may return.
OldToken == "t1"
NewTokens == {"t2", "t3"}

\* error.response is undefined (timeout, no connection).
NoStatus == 0

\* The failures of a request: an HTTP status with a response, or a
\* transport error code without one.
AxiosCode(status) ==
    IF status \div 100 = 4 THEN "ERR_BAD_REQUEST" ELSE "ERR_BAD_RESPONSE"
HttpError(s) == [src |-> "request", status |-> s, code |-> AxiosCode(s)]
TransportError(c) == [src |-> "request", status |-> NoStatus, code |-> c]
RequestErrors ==
    {HttpError(s) : s \in {401, 403, 500}}
        \cup {TransportError(c) : c \in {"ECONNABORTED", "ERR_NETWORK"}}

\* The failures of the call axios.post('/auth/refresh').
RefreshErrors ==
    {[src |-> "refresh", status |-> 401, code |-> AxiosCode(401)],
     [src |-> "refresh", status |-> NoStatus, code |-> "ERR_NETWORK"]}

NoError == [src |-> "none", status |-> NoStatus, code |-> "none"]

\* The rejection of a request whose cancel token was cancelled.
CanceledError == TransportError("ERR_CANCELED")

IdleReq ==
    [pc |-> "idle", retry |-> FALSE, auth |-> Null, sends |-> 0,
     refreshes |-> 0, newToken |-> Null, err |-> NoError, toasts |-> 0,
     kind |-> "none", seen |-> <<>>]

\* The user object a login passes, and JSON.stringify / JSON.parse of it.
AdminUser == "admin"
JsonStringify(u) == CASE u = AdminUser -> "{\"username\":\"admin\"}"
JsonParse(str) == CASE str = "{\"username\":\"admin\"}" -> AdminUser
StoredUser == JsonStringify(AdminUser)

\* AuthProvider when it mounts: the useState initial values, checkAuthStatus
\* not yet run.
MountSession ==
    [pc |-> "mount", savedToken |-> Null, savedUser |-> Null,
     token |-> Null, user |-> Null, isAuthenticated |-> FALSE,
     isLoading |-> TRUE, outcome |-> "none", loggedOut |-> FALSE]

\* The axios instances besides `api` of advancedAxios.js: `api` of
\* libraryAPI.js (booksAPI, issuesAPI, adminAPI), authApiClient and
\* adminApiClient of adminAPI.js.
Clients == {"library", "auth", "admin"}
IdleLreq == [pc |-> "idle", auth |-> Null, status |-> NoStatus]

\* The search component after its first render: no search term, the
\* effect has set its timer, the list is empty and no request was issued.
AllBooks == <<>>
IdleUi ==
    [searchTerm |-> <<>>, timer |-> TRUE, seq |-> 0, pending |-> {},
     books |-> [query |-> AllBooks, from |-> 0], loading |-> FALSE]

\* No failed response was handed to the status switch yet.
IdleProbe == [err |-> NoError, kind |-> "none"]

\* The books of the library, and UserPage after its first render: the list
\* is not fetched yet, no book is selected, nothing is submitted.
BookIds == {"b1", "b2"}
NoBook == [id |-> Null, qty |-> 0]
IdleUserPage ==
    [loaded |-> FALSE, books |-> [b \in BookIds |-> 0],
     server |-> [b \in BookIds |-> 0], selected |-> NoBook,
     clicked |-> Null, submitting |-> FALSE, pending |-> {},
     last |-> "none"]

\* No call of batchRequests was made yet.
IdleBatch == [pc |-> "idle", settled |-> <<>>, result |-> <<>>]

\* A component using useApi before its first render: the useState and useRef
\* initial values, no effect has run.
IdleApiHook ==
    [mounted |-> "no", immediate |-> TRUE, cancelRef |-> FALSE,
     data |-> Null, loading |-> FALSE, error |-> Null, inflight |-> {},
     asked |-> 0, calls |-> 0, notified |-> 0]

\* A component using useAsync, rendered: the useState initial values.
IdleAsyncHook ==
    [mounted |-> FALSE, immediate |-> TRUE, status |-> "idle",
     data |-> Null, error |-> Null, inflight |-> {}, calls |-> 0]

\* A component using usePagination over an empty list, rendered, its effect
\* run.
IdlePager ==
    [currentPage |-> 1, length |-> 0, itemsPerPage |-> 1,
     last |-> [op |-> "none", page |-> 0]]

\* The components that a specification leaves alone.
IdleComponents ==
    /\ userPage = IdleUserPage
    /\ batch = IdleBatch
    /\ apiHook = IdleApiHook
    /\ asyncHook = IdleAsyncHook
    /\ pager = IdlePager

\* api.interceptors.request: the Authorization header the request leaves
\* with, given the header it came with.
RequestInterceptor(header, st) ==
    IF st.adminToken # Null THEN st.adminToken ELSE header

\* handleAuthFailure: the three slots are removed.
handleAuthFailure(st) ==
    [st EXCEPT !.adminToken = Null, !.adminUser = Null,
               !.refreshToken = Null]

\* The guard of the token refresh logic.
ShouldRefreshAlways(status, retry) == status = 401
ShouldRefresh(status, retry) == status = 401 /\ ~retry

\* localStorage.setItem('adminToken', newToken)
StoreNewTokenNowhere(st, t) == st
StoreNewToken(st, t) == [st EXCEPT !.adminToken = t]

\* The error the refresh catch branch rejects the caller with.
RefreshCatchError(original, refreshError) == refreshError

\* The status switch: the toast it shows, named by the kind of error the
\* message stands for.
ClassifyWithout503(status, code) ==
    CASE status = 400 -> "BadRequest"
      [] status = 401 -> "Unauthorized"
      [] status = 403 -> "Forbidden"
      [] status = 404 -> "NotFound"
      [] status = 409 -> "Conflict"
      [] status = 422 -> "Validation"
      [] status = 429 -> "RateLimited"
      [] status = 500 -> "ServerError"
      [] status \in {502, 504} -> "ServiceUnavailable"
      [] OTHER -> IF code = "ECONNABORTED" THEN "Timeout"
                  ELSE IF code = "ERR_NETWORK" THEN "NetworkError"
                  ELSE "Unknown"
Classify(status, code) ==
    CASE status = 400 -> "BadRequest"
      [] status = 401 -> "Unauthorized"
      [] status = 403 -> "Forbidden"
      [] status = 404 -> "NotFound"
      [] status = 409 -> "Conflict"
      [] status = 422 -> "Validation"
      [] status = 429 -> "RateLimited"
      [] status = 500 -> "ServerError"
      [] status \in {502, 503, 504} -> "ServiceUnavailable"
      [] OTHER -> IF code = "ECONNABORTED" THEN "Timeout"
                  ELSE IF code = "ERR_NETWORK" THEN "NetworkError"
                  ELSE "Unknown"

\* The status switch: the number of toast.error calls, and whether
\* handleAuthFailure runs.
SwitchToasts(e) == 1
SwitchAuthFailureAlways(e) == TRUE
SwitchAuthFailure(e) == e.status = 401

\* `return Promise.reject(error)` after the switch: how the caller's
\* promise settles.
SwitchOutcomeSwallows(e) == IF e.status = 403 THEN "resolved" ELSE "rejected"
SwitchOutcome(e) == "rejected"

\* A new request: the request interceptor runs and the request is sent.
Start(r) ==
    /\ req[r].pc \in {"idle", "resolved", "rejected"}
    /\ req' = [req EXCEPT ![r] =
                  [IdleReq EXCEPT !.pc = "sent",
                                  !.auth = RequestInterceptor(Null, storage),
                                  !.sends = 1]]
    /\ UNCHANGED <<storage, location, cache, now, call, post, session, lreq, ui, probe, userPage, batch,
                   apiHook, asyncHook, pager>>

\* A 2xx response: the success handler returns the response.
RespondOk(r) ==
    /\ req[r].pc = "sent"
    /\ req' = [req EXCEPT ![r].pc = "resolved",
                          ![r].seen = Append(@, 200)]
    /\ UNCHANGED <<storage, location, cache, now, call, post, session, lreq, ui, probe, userPage, batch,
                   apiHook, asyncHook, pager>>

\* A failure of the request: the error handler of the response interceptor.
RespondError(r, e) ==
    /\ req[r].pc = "sent"
    /\ IF ShouldRefresh(e.status, req[r].retry) /\ storage.refreshToken # Null
       THEN \* await axios.post('/auth/refresh', {refreshToken})
            /\ req' = [req EXCEPT ![r].pc = "refreshing",
                                  ![r].retry = TRUE,
                                  ![r].refreshes = @ + 1,
                                  ![r].err = e,
                                  ![r].seen = Append(@, e.status)]
            /\ UNCHANGED <<storage, location>>
       ELSE \* the status switch, then Promise.reject(error)
            /\ req' = [req EXCEPT ![r].pc = SwitchOutcome(e),
                                  ![r].retry =
                                      @ \/ ShouldRefresh(e.status, req[r].retry),
                                  ![r].err = e,
                                  ![r].toasts = @ + SwitchToasts(e),
                                  ![r].kind = Classify(e.status, e.code),
                                  ![r].seen = Append(@, e.status)]
            /\ storage' = IF SwitchAuthFailure(e)
                          THEN handleAuthFailure(storage) ELSE storage
            /\ location' = IF SwitchAuthFailure(e) THEN "/login" ELSE location
    /\ UNCHANGED <<cache, now, call, post, session, lreq, ui, probe, userPage, batch,
                   apiHook, asyncHook, pager>>

\* The cancel token of a request in flight is cancelled: the request
\* rejects with a cancellation, which the error handler receives.
Cancel(r) == RespondError(r, CanceledError)

\* The refresh call returns a token: it is stored and the original request
\* is sent again through the instance (the request interceptor runs again).
RefreshOk(r, t) ==
    /\ req[r].pc = "refreshing"
    /\ storage' = StoreNewToken(storage, t)
    /\ req' = [req EXCEPT ![r].pc = "sent",
                          ![r].newToken = t,
                          ![r].auth = RequestInterceptor(t, storage'),
                          ![r].sends = @ + 1]
    /\ UNCHANGED <<location, cache, now, call, post, session, lreq, ui, probe, userPage, batch,
                   apiHook, asyncHook, pager>>

\* The refresh call fails: the catch branch.
RefreshFail(r, e) ==
    /\ req[r].pc = "refreshing"
    /\ storage' = handleAuthFailure(storage)
    /\ location' = "/login"
    /\ req' = [req EXCEPT ![r].pc = "rejected",
                          ![r].err = RefreshCatchError(req[r].err, e)]
    /\ UNCHANGED <<cache, now, call, post, session, lreq, ui, probe, userPage, batch,
                   apiHook, asyncHook, pager>>

InitStorage ==
    storage \in [adminToken : {Null, OldToken},
                 adminUser : {Null, StoredUser},
                 refreshToken : {Null, "rt1"},
                 token : {Null}]

Init ==
    /\ InitStorage
    /\ location = "/"
    /\ req = [r \in Reqs |-> IdleReq]
    /\ cache = <<>>
    /\ now = 0
    /\ call = <<>>
    /\ post = <<>>
    /\ session = MountSession
    /\ lreq = [c \in Clients |-> IdleLreq]
    /\ ui = IdleUi
    /\ probe = IdleProbe
    /\ IdleComponents

Next ==
    \E r \in Reqs :
        \/ Start(r)
        \/ RespondOk(r)
        \/ \E e \in RequestErrors : RespondError(r, e)
        \/ Cancel(r)
        \/ \E t \in NewTokens : RefreshOk(r, t)
        \/ \E e \in RefreshErrors : RefreshFail(r, e)

Spec == Init /\ [][Next]_vars

\* ------------------------------------------------------------------------
\* 2. The response cache and apiWrapper.get / put / delete
\* ------------------------------------------------------------------------

\* String.prototype.includes: sub occurs in s (the empty string occurs in
\* every string).
Includes(s, sub) ==
    \E i \in 0..(Len(s) - Len(sub)) : SubSeq(s, i + 1, i + Len(sub)) = sub

\* The positions of the character ch in s.
Positions(s, ch) == {i \in 1..Len(s) : s[i] = ch}

Max(S) == CHOOSE x \in S : \A y \in S : y <= x
Min(S) == CHOOSE x \in S : \A y \in S : x <= y

\* url.split('/')[0]: what precedes the first slash.
SplitFirst(url) ==
    IF Positions(url, "/") = {} THEN url
    ELSE SubSeq(url, 1, Min(Positions(url, "/")) - 1)

\* url.split('/').pop(): what follows the last slash.
SplitLast(url) ==
    IF Positions(url, "/") = {} THEN url
    ELSE SubSeq(url, Max(Positions(url, "/")) + 1, Len(url))

\* The URLs and query parameters of the model, as JavaScript strings.
UrlBooks == <<"/", "b", "o", "o", "k", "s">>
UrlBook7 == UrlBooks \o <<"/", "7">>
UrlIssues == <<"/", "i", "s", "s", "u", "e", "s">>
RelBook7 == <<"b", "o", "o", "k", "s", "/", "7">>

\* config.params: a list of name/value pairs (undefined is the empty list).
NoParams == <<>>
Page7 == << <<  <<"p", "a", "g", "e">>, <<"7">>  >> >>

\* JSON.stringify of config.params || {}: {"name":value,...}
RECURSIVE StringifyPairs(_)
StringifyPairs(ps) ==
    IF ps = <<>> THEN <<>>
    ELSE <<"\"">> \o ps[1][1] \o <<"\"", ":">> \o ps[1][2]
             \o (IF Len(ps) > 1 THEN <<",">> ELSE <<>>)
             \o StringifyPairs(Tail(ps))

Stringify(params) == <<"{">> \o StringifyPairs(params) \o <<"}">>

\* cacheKey = `GET_${url}_${JSON.stringify(config.params || {})}`
CacheKey(url, params) ==
    <<"G", "E", "T", "_">> \o url \o <<"_">> \o Stringify(params)

\* The reads and writes the callers issue.
GetRequests ==
    {[url |-> UrlBooks, params |-> NoParams],
     [url |-> UrlBook7, params |-> NoParams],
     [url |-> UrlIssues, params |-> Page7]}
PutUrls == {UrlBook7, RelBook7}
DeleteUrls == {UrlBook7}

Keys == {CacheKey(g.url, g.params) : g \in GetRequests}

\* response.data of a 200 response: an empty body, or a JSON value.
Payloads == {"", "p1"}

\* The successful responses to a GET: 200 with a body, or 204 without.
GetResponses ==
    {[status |-> 200, data |-> d] : d \in Payloads}
        \cup {[status |-> 204, data |-> ""]}

\* JavaScript truthiness of a cached value: `if (cached)`.
Truthy(v) == v # Null /\ v # ""

CACHE_DURATION == 5 * 60 * 1000

\* The clock advances in steps of half the cache duration.
TickMs == CACHE_DURATION \div 2
MaxTicks == 2

\* The calls of the wrapper that may overlap.
Calls == {"c1", "c2"}

IdleCall ==
    [pc |-> "idle", op |-> "none", url |-> <<>>, params |-> NoParams,
     skipCache |-> FALSE, ret |-> Null, net |-> 0, evicted |-> 0]

\* getCachedData: the value returned ...
IsFresh(entry, t) == t - entry.timestamp < CACHE_DURATION

getCachedData(c, key, t) ==
    IF key \in DOMAIN c /\ IsFresh(c[key], t) THEN c[key].data ELSE Null

\* ... and the cache it leaves: cache.delete(key) unless it returned early.
Remove(c, ks) == [k \in (DOMAIN c) \ ks |-> c[k]]

CacheAfterGetCachedData(c, key, t) ==
    IF key \in DOMAIN c /\ IsFresh(c[key], t) THEN c ELSE Remove(c, {key})

\* setCachedData
setCachedData(c, key, data, t) ==
    [k \in (DOMAIN c) \cup {key} |->
        IF k = key THEN [data |-> data, timestamp |-> t] ELSE c[k]]

\* The loop of apiWrapper.put: every key that includes url.split('/')[0].
PutInvalidatesNothing(c, url) == c
PutInvalidates(c, url) ==
    Remove(c, {k \in DOMAIN c : Includes(k, SplitFirst(url))})

\* The loop of apiWrapper.delete: every key that includes
\* url.split('/').pop().
DeleteInvalidates(c, url) ==
    Remove(c, {k \in DOMAIN c : Includes(k, SplitLast(url))})

\* `if (cached)` in apiWrapper.get: the call returns the cached value.
ServedFromCache(cached) == Truthy(cached)

\* `response.status === 200 && !config.skipCache`
ShouldStoreAnyGet(status, skipCache) == status = 200
ShouldStore(status, skipCache) == status = 200 /\ ~skipCache

\* The resource (first path segment) a URL names, and its cache keys.
Resource(url) ==
    LET u == IF url # <<>> /\ url[1] = "/" THEN Tail(url) ELSE url
    IN  SplitFirst(u)
KeysOfResource(url) ==
    {CacheKey(g.url, g.params) :
        g \in {h \in GetRequests : Resource(h.url) = Resource(url)}}

\* History: the number of entries a write, or the read of a get, removed.
Evicted(before, after) ==
    Cardinality(DOMAIN before) - Cardinality(DOMAIN after)

\* A call that has settled: its outcome, and the request it made.
Finished(cl, pc, ret, evicted) ==
    [IdleCall EXCEPT !.pc = pc, !.op = cl.op, !.ret = ret, !.net = cl.net,
                     !.evicted = evicted]

CanCall(c) == call[c].pc \in {"idle", "returned", "threw"}

\* apiWrapper.get, up to its return from the cache or its await of api.get.
GetCall(c, g, skip) ==
    LET key == CacheKey(g.url, g.params)
        cached == IF skip THEN Null ELSE getCachedData(cache, key, now)
        served == ~skip /\ ServedFromCache(cached)
    IN  /\ CanCall(c)
        /\ cache' = IF skip THEN cache
                    ELSE CacheAfterGetCachedData(cache, key, now)
        /\ call' = [call EXCEPT ![c] =
                       [pc |-> IF served THEN "returned" ELSE "inflight",
                        op |-> "get", url |-> g.url, params |-> g.params,
                        skipCache |-> skip,
                        ret |-> IF served THEN cached ELSE Null,
                        net |-> IF served THEN 0 ELSE 1,
                        evicted |-> Evicted(cache, cache')]]
        /\ UNCHANGED <<storage, location, req, now, post, session, lreq, ui, probe, userPage, batch,
                   apiHook, asyncHook, pager>>

\* api.get resolved: the response is cached and its data returned.
GetOk(c, resp) ==
    LET key == CacheKey(call[c].url, call[c].params)
        store == ShouldStore(resp.status, call[c].skipCache)
    IN  /\ call[c].pc = "inflight"
        /\ call[c].op = "get"
        /\ cache' = IF store THEN setCachedData(cache, key, resp.data, now)
                    ELSE cache
        /\ call' = [call EXCEPT ![c] = Finished(call[c], "returned", resp.data, 0)]
        /\ UNCHANGED <<storage, location, req, now, post, session, lreq, ui, probe, userPage, batch,
                   apiHook, asyncHook, pager>>

\* The invalidation loops of put and delete stand after the await of the
\* request: they run when the request resolved, not when it rejected.
InvalidatesOnAnyOutcome(outcome) == TRUE
InvalidatesOn(outcome) == outcome = "resolved"

\* The cache a rejected call leaves.
CacheAfterRejection(c, op, url) ==
    IF ~InvalidatesOn("rejected") THEN c
    ELSE IF op = "put" THEN PutInvalidates(c, url)
    ELSE IF op = "delete" THEN DeleteInvalidates(c, url)
    ELSE c

\* api.get / api.put / api.delete rejected: the wrapper throws.
CallFail(c) ==
    /\ call[c].pc = "inflight"
    /\ cache' = CacheAfterRejection(cache, call[c].op, call[c].url)
    /\ call' = [call EXCEPT ![c] = Finished(call[c], "threw", Null, 0)]
    /\ UNCHANGED <<storage, location, req, now, post, session, lreq, ui, probe, userPage, batch,
                   apiHook, asyncHook, pager>>

\* apiWrapper.put / apiWrapper.delete, up to the await of the request.
WriteCall(c, op, url) ==
    /\ CanCall(c)
    /\ call' = [call EXCEPT ![c] =
                   [IdleCall EXCEPT !.pc = "inflight", !.op = op,
                                    !.url = url, !.net = 1]]
    /\ UNCHANGED <<storage, location, req, cache, now, post, session, lreq, ui, probe, userPage, batch,
                   apiHook, asyncHook, pager>>

\* api.put resolved: the related cache entries are cleared.
PutOk(c) ==
    /\ call[c].pc = "inflight"
    /\ call[c].op = "put"
    /\ cache' = PutInvalidates(cache, call[c].url)
    /\ call' = [call EXCEPT ![c] =
                   Finished(call[c], "returned", "ok", Evicted(cache, cache'))]
    /\ UNCHANGED <<storage, location, req, now, post, session, lreq, ui, probe, userPage, batch,
                   apiHook, asyncHook, pager>>

\* api.delete resolved: the cache entries of the resource are cleared.
DeleteOk(c) ==
    /\ call[c].pc = "inflight"
    /\ call[c].op = "delete"
    /\ cache' = DeleteInvalidates(cache, call[c].url)
    /\ call' = [call EXCEPT ![c] =
                   Finished(call[c], "returned", "ok", Evicted(cache, cache'))]
    /\ UNCHANGED <<storage, location, req, now, post, session, lreq, ui, probe, userPage, batch,
                   apiHook, asyncHook, pager>>

\* Time passes.
Tick ==
    /\ now + TickMs <= MaxTicks * TickMs
    /\ now' = now + TickMs
    /\ UNCHANGED <<storage, location, req, cache, call, post, session, lreq, ui, probe, userPage, batch,
                   apiHook, asyncHook, pager>>

InitCache ==
    /\ storage = [adminToken |-> OldToken, adminUser |-> StoredUser,
                  refreshToken |-> Null, token |-> Null]
    /\ location = "/"
    /\ req = <<>>
    /\ cache = <<>>
    /\ now = 0
    /\ call = [c \in Calls |-> IdleCall]
    /\ post = <<>>
    /\ session = MountSession
    /\ lreq = [c \in Clients |-> IdleLreq]
    /\ ui = IdleUi
    /\ probe = IdleProbe
    /\ IdleComponents

NextCache ==
    \/ Tick
    \/ \E c \in Calls :
        \/ \E g \in GetRequests, skip \in BOOLEAN : GetCall(c, g, skip)
        \/ \E resp \in GetResponses : GetOk(c, resp)
        \/ \E u \in PutUrls : WriteCall(c, "put", u)
        \/ \E u \in DeleteUrls : WriteCall(c, "delete", u)
        \/ PutOk(c)
        \/ DeleteOk(c)
        \/ CallFail(c)

SpecCache == InitCache /\ [][NextCache]_vars

\* ------------------------------------------------------------------------
\* 3. retryRequest and apiWrapper.post
\* ------------------------------------------------------------------------

\* The calls of apiWrapper.post that may overlap.
Posts == {"p1", "p2"}

\* The defaults of retryRequest's parameters maxRetries and delay.
DefaultMaxRetries == 3
DefaultDelay == 1000

\* The largest config.maxRetries a caller passes.
MaxRetriesArg == 4

\* config.maxRetries: undefined, or a number.
Undefined == [given |-> FALSE, value |-> 0]
Given(n) == [given |-> TRUE, value |-> n]
MaxRetriesArgs == {Undefined} \cup {Given(n) : n \in 0..MaxRetriesArg}

\* A default parameter value: it replaces undefined.
DefaultParam(arg, default) == IF arg.given THEN arg.value ELSE default

RECURSIVE Pow(_, _)
Pow(b, n) == IF n = 0 THEN 1 ELSE b * Pow(b, n - 1)

\* waitTime = delay * Math.pow(2, i)
WaitTimeLinear(delay, i) == delay * (i + 1)
WaitTime(delay, i) == delay * Pow(2, i)

\* `i === maxRetries - 1`: the failed attempt was the last one.
IsLastAttemptOneMore(i, maxRetries) == i = maxRetries
IsLastAttempt(i, maxRetries) == i = maxRetries - 1

IdlePost ==
    [pc |-> "idle", explicit |-> FALSE, maxRetries |-> 0, delay |-> 0,
     i |-> 0, attempts |-> 0, waits |-> <<>>, err |-> 0, ret |-> Null]

\* The error apiWrapper.post throws when retryRequest returned undefined:
\* reading response.data is a TypeError (the errors of the attempts are
\* numbered from 1).
TypeError == 0 - 1

\* apiWrapper.post up to the first await of retryRequest: the loop is
\* entered and requestFunc invoked, or the loop is skipped, retryRequest
\* returns undefined and reading response.data throws.
PostCall(p, arg) ==
    LET maxRetries == DefaultParam(arg, DefaultMaxRetries)
        started == [IdlePost EXCEPT !.explicit = arg.given,
                                    !.maxRetries = maxRetries,
                                    !.delay = DefaultDelay]
    IN  /\ post[p].pc \in {"idle", "returned", "threw"}
        /\ post' = [post EXCEPT ![p] =
                       IF 0 < maxRetries
                       THEN [started EXCEPT !.pc = "attempt", !.attempts = 1]
                       ELSE [started EXCEPT !.pc = "threw", !.err = TypeError]]
        /\ UNCHANGED <<storage, location, req, cache, now, call, session, lreq, ui, probe, userPage, batch,
                   apiHook, asyncHook, pager>>

\* requestFunc resolved: retryRequest returns the response, post its data.
AttemptOk(p, d) ==
    /\ post[p].pc = "attempt"
    /\ post' = [post EXCEPT ![p].pc = "returned", ![p].ret = d]
    /\ UNCHANGED <<storage, location, req, cache, now, call, session, lreq, ui, probe, userPage, batch,
                   apiHook, asyncHook, pager>>

\* requestFunc rejected: the catch block throws the error of the last
\* attempt, or starts the backoff timer.
AttemptFail(p) ==
    /\ post[p].pc = "attempt"
    /\ post' = [post EXCEPT ![p] =
                   IF IsLastAttempt(post[p].i, post[p].maxRetries)
                   THEN [@ EXCEPT !.pc = "threw", !.err = post[p].attempts]
                   ELSE [@ EXCEPT !.pc = "wait",
                                  !.waits = Append(@, WaitTime(post[p].delay,
                                                               post[p].i))]]
    /\ UNCHANGED <<storage, location, req, cache, now, call, session, lreq, ui, probe, userPage, batch,
                   apiHook, asyncHook, pager>>

\* The timer fires: i++, the loop condition, and the next requestFunc().
WaitDone(p) ==
    /\ post[p].pc = "wait"
    /\ post' = [post EXCEPT ![p] =
                   IF post[p].i + 1 < post[p].maxRetries
                   THEN [@ EXCEPT !.pc = "attempt", !.i = @ + 1,
                                  !.attempts = @ + 1]
                   ELSE [@ EXCEPT !.pc = "threw", !.i = @ + 1,
                                  !.err = TypeError]]
    /\ UNCHANGED <<storage, location, req, cache, now, call, session, lreq, ui, probe, userPage, batch,
                   apiHook, asyncHook, pager>>

InitRetry ==
    /\ storage = [adminToken |-> OldToken, adminUser |-> StoredUser,
                  refreshToken |-> Null, token |-> Null]
    /\ location = "/"
    /\ req = <<>>
    /\ cache = <<>>
    /\ now = 0
    /\ call = <<>>
    /\ post = [p \in Posts |-> IdlePost]
    /\ session = MountSession
    /\ lreq = [c \in Clients |-> IdleLreq]
    /\ ui = IdleUi
    /\ probe = IdleProbe
    /\ IdleComponents

NextRetry ==
    \E p \in Posts :
        \/ \E arg \in MaxRetriesArgs : PostCall(p, arg)
        \/ \E d \in Payloads : AttemptOk(p, d)
        \/ AttemptFail(p)
        \/ WaitDone(p)

SpecRetry == InitRetry /\ [][NextRetry]_vars

\* ------------------------------------------------------------------------
\* 4. The session: AuthProvider (context/AuthContext.js) and the requests of
\*    every axios instance under it
\* ------------------------------------------------------------------------

\* The tokens a login may pass.
LoginTokens == {"t4"}

\* login: the two persisted slots it sets.
LoginStorage(st, t, u) ==
    [st EXCEPT !.adminToken = t, !.adminUser = JsonStringify(u)]

\* logout: the two persisted slots it removes.
LogoutStorageKeepsUser(st) == [st EXCEPT !.adminToken = Null]
LogoutStorage(st) == [st EXCEPT !.adminToken = Null, !.adminUser = Null]

\* logout: the in-memory state it sets (loggedOut is history: logout was
\* the last of login and logout).
LogoutState(se) ==
    [se EXCEPT !.token = Null, !.user = Null, !.isAuthenticated = FALSE,
               !.loggedOut = TRUE]

\* The check of a truthy savedToken && savedUser.
BothSaved(st) == st.adminToken # Null /\ st.adminUser # Null

\* checkAuthStatus up to its first await: the slots are read; with both
\* present the verification request is sent, otherwise the finally block
\* runs at once.
CheckAuthStatus ==
    /\ session.pc = "mount"
    /\ session' =
           IF BothSaved(storage)
           THEN [session EXCEPT !.pc = "verifying",
                                !.savedToken = storage.adminToken,
                                !.savedUser = storage.adminUser]
           ELSE [session EXCEPT !.pc = "done", !.isLoading = FALSE]
    /\ UNCHANGED <<storage, location, req, cache, now, call, post, lreq, ui,
                   probe, userPage, batch,
                   apiHook, asyncHook, pager>>

\* The verification answers with data.success: the saved token and user
\* become the session; then the finally block.
VerifyOk ==
    /\ session.pc = "verifying"
    /\ session' = [session EXCEPT !.pc = "done",
                                  !.token = session.savedToken,
                                  !.user = JsonParse(session.savedUser),
                                  !.isAuthenticated = TRUE,
                                  !.isLoading = FALSE,
                                  !.outcome = "ok",
                                  !.savedToken = Null,
                                  !.savedUser = Null]
    /\ UNCHANGED <<storage, location, req, cache, now, call, post, lreq, ui,
                   probe, userPage, batch,
                   apiHook, asyncHook, pager>>

\* The verification answers without data.success ("failed"), or fetch or
\* response.json() throws ("error"): logout(), then the finally block.
VerifyFail(how) ==
    /\ session.pc = "verifying"
    /\ session' = [LogoutState(session) EXCEPT !.pc = "done",
                                               !.isLoading = FALSE,
                                               !.outcome = how,
                                               !.savedToken = Null,
                                               !.savedUser = Null]
    /\ storage' = LogoutStorage(storage)
    /\ UNCHANGED <<location, req, cache, now, call, post, lreq, ui, probe, userPage, batch,
                   apiHook, asyncHook, pager>>

\* login(newToken, userData), called by the pages under AuthProvider once
\* its mount effect has run.
Login(t, u) ==
    /\ session.pc # "mount"
    /\ session' = [session EXCEPT !.token = t, !.user = u,
                                  !.isAuthenticated = TRUE,
                                  !.loggedOut = FALSE]
    /\ storage' = LoginStorage(storage, t, u)
    /\ UNCHANGED <<location, req, cache, now, call, post, lreq, ui, probe, userPage, batch,
                   apiHook, asyncHook, pager>>

\* logout(), called by the pages under AuthProvider once its mount effect
\* has run.
Logout ==
    /\ session.pc # "mount"
    /\ session' = LogoutState(session)
    /\ storage' = LogoutStorage(storage)
    /\ UNCHANGED <<location, req, cache, now, call, post, lreq, ui, probe, userPage, batch,
                   apiHook, asyncHook, pager>>

\* The request interceptor of each instance: the Authorization header the
\* request leaves with.  libraryAPI reads the slot `token`, authApiClient
\* the slot `adminToken`, adminApiClient has no request interceptor.
ClientRequestInterceptor(c, st) ==
    CASE c = "library" -> st.token
      [] c = "auth" -> st.adminToken
      [] c = "admin" -> Null

\* The error handler of each instance's response interceptor: the storage
\* and the location it leaves.
ClientErrorStorage(c, status, st) ==
    CASE c = "library" /\ status = 401 -> [st EXCEPT !.token = Null]
      [] c = "auth" /\ status = 401 ->
             [st EXCEPT !.adminToken = Null, !.adminUser = Null]
      [] OTHER -> st
ClientErrorLocation(c, status, loc) ==
    IF c = "auth" /\ status = 401 THEN "/login" ELSE loc

\* A request through one of these instances is sent.
ClientSend(c) ==
    /\ lreq[c].pc # "sent"
    /\ lreq' = [lreq EXCEPT ![c] =
                   [IdleLreq EXCEPT
                       !.pc = "sent",
                       !.auth = ClientRequestInterceptor(c, storage)]]
    /\ UNCHANGED <<storage, location, req, cache, now, call, post, session,
                   ui, probe, userPage, batch,
                   apiHook, asyncHook, pager>>

\* It is answered 2xx.
ClientOk(c) ==
    /\ lreq[c].pc = "sent"
    /\ lreq' = [lreq EXCEPT ![c] = IdleLreq]
    /\ UNCHANGED <<storage, location, req, cache, now, call, post, session,
                   ui, probe, userPage, batch,
                   apiHook, asyncHook, pager>>

\* It fails with an HTTP status.
ClientError(c, status) ==
    /\ lreq[c].pc = "sent"
    /\ lreq' = [lreq EXCEPT ![c] =
                   [IdleLreq EXCEPT !.pc = "rejected", !.status = status]]
    /\ storage' = ClientErrorStorage(c, status, storage)
    /\ location' = ClientErrorLocation(c, status, location)
    /\ UNCHANGED <<req, cache, now, call, post, session, ui, probe, userPage, batch,
                   apiHook, asyncHook, pager>>

\* The request through `api` of advancedAxios.js in this specification, the
\* failures it meets and the token its refresh call returns.
SessionReqs == {"r1"}
SessionErrors == {HttpError(401), HttpError(403)}
SessionNewTokens == {"t2"}

InitSession ==
    /\ InitStorage
    /\ location = "/"
    /\ req = [r \in Reqs |-> IdleReq]
    /\ cache = <<>>
    /\ now = 0
    /\ call = <<>>
    /\ post = <<>>
    /\ session = MountSession
    /\ lreq = [c \in Clients |-> IdleLreq]
    /\ ui = IdleUi
    /\ probe = IdleProbe
    /\ IdleComponents

NextSession ==
    \/ CheckAuthStatus
    \/ VerifyOk
    \/ \E how \in {"failed", "error"} : VerifyFail(how)
    \/ \E t \in LoginTokens : Login(t, AdminUser)
    \/ Logout
    \/ \E c \in Clients : ClientSend(c)
    \/ \E c \in Clients : ClientOk(c)
    \/ \E c \in Clients, status \in {401, 500} : ClientError(c, status)
    \/ \E r \in SessionReqs : Start(r)
    \/ \E r \in SessionReqs : RespondOk(r)
    \/ \E r \in SessionReqs, e \in SessionErrors : RespondError(r, e)
    \/ \E r \in SessionReqs, t \in SessionNewTokens : RefreshOk(r, t)
    \/ \E r \in SessionReqs, e \in RefreshErrors : RefreshFail(r, e)

\* fetch settles and the continuation of checkAuthStatus is run by the
\* event loop: the mount effect and the verification do not wait for ever.
SpecSession ==
    /\ InitSession
    /\ [][NextSession]_vars
    /\ WF_vars(CheckAuthStatus)
    /\ WF_vars(VerifyOk \/ \E how \in {"failed", "error"} : VerifyFail(how))

\* ------------------------------------------------------------------------
\* 6. The book search component (components/ExampleComponents.jsx)
\* ------------------------------------------------------------------------

\* The searches one component issues.
MaxSearches == 3

\* What the user may type into the search box.
SearchTerms == {<<>>, <<" ">>, <<"a">>, <<"a", "b">>}

\* String.prototype.trim
RECURSIVE Trim(_)
Trim(str) ==
    IF str = <<>> THEN str
    ELSE IF Head(str) = " " THEN Trim(Tail(str))
    ELSE IF str[Len(str)] = " " THEN Trim(SubSeq(str, 1, Len(str) - 1))
    ELSE str

\* What the debounced effect asks for when its timer fires: the search for
\* the term, or all books when the trimmed term is empty.
QueryOf(term) == IF Trim(term) # <<>> THEN term ELSE AllBooks

\* setSearchTerm: the effect's cleanup clears the timer and the effect sets
\* a new one.
Type(term) ==
    /\ term # ui.searchTerm
    /\ ui' = [ui EXCEPT !.searchTerm = term, !.timer = TRUE]
    /\ UNCHANGED <<storage, location, req, cache, now, call, post, session,
                   lreq, probe, userPage, batch,
                   apiHook, asyncHook, pager>>

\* The timer fires after 500 ms: handleSearch(searchTerm) or fetchBooks()
\* sets loading and sends its request.
TimerFires ==
    /\ ui.timer
    /\ ui.seq < MaxSearches
    /\ ui' = [ui EXCEPT !.timer = FALSE,
                        !.seq = @ + 1,
                        !.pending = @ \cup {[id |-> ui.seq + 1,
                                             query |-> QueryOf(ui.searchTerm)]},
                        !.loading = TRUE]
    /\ UNCHANGED <<storage, location, req, cache, now, call, post, session,
                   lreq, probe, userPage, batch,
                   apiHook, asyncHook, pager>>

\* A request of the component is answered: setBooks, then setLoading(false).
SearchOk(p) ==
    /\ p \in ui.pending
    /\ ui' = [ui EXCEPT !.pending = @ \ {p},
                        !.books = [query |-> p.query, from |-> p.id],
                        !.loading = FALSE]
    /\ UNCHANGED <<storage, location, req, cache, now, call, post, session,
                   lreq, probe, userPage, batch,
                   apiHook, asyncHook, pager>>

\* A request of the component fails: a toast, then setLoading(false).
SearchFail(p) ==
    /\ p \in ui.pending
    /\ ui' = [ui EXCEPT !.pending = @ \ {p}, !.loading = FALSE]
    /\ UNCHANGED <<storage, location, req, cache, now, call, post, session,
                   lreq, probe, userPage, batch,
                   apiHook, asyncHook, pager>>

InitSearch ==
    /\ storage = [adminToken |-> OldToken, adminUser |-> StoredUser,
                  refreshToken |-> Null, token |-> Null]
    /\ location = "/"
    /\ req = <<>>
    /\ cache = <<>>
    /\ now = 0
    /\ call = <<>>
    /\ post = <<>>
    /\ session = MountSession
    /\ lreq = [c \in Clients |-> IdleLreq]
    /\ ui = IdleUi
    /\ probe = IdleProbe
    /\ IdleComponents

NextSearch ==
    \/ \E term \in SearchTerms : Type(term)
    \/ TimerFires
    \/ \E p \in ui.pending : SearchOk(p)
    \/ \E p \in ui.pending : SearchFail(p)

SpecSearch == InitSearch /\ [][NextSearch]_vars

\* ------------------------------------------------------------------------
\* 5. The status switch on every failed response
\* ------------------------------------------------------------------------

\* The failed responses: an HTTP error status with the code axios gives it,
\* or no response and a transport code.
ErrorStatuses == 400..599
TransportCodes == {"ECONNABORTED", "ERR_NETWORK", "ERR_CANCELED", "ETIMEDOUT"}
FailedResponses ==
    {HttpError(st) : st \in ErrorStatuses}
        \cup {TransportError(c) : c \in TransportCodes}

\* The error handler reaches the status switch with the failure e.
SwitchOn(e) ==
    /\ probe' = [err |-> e, kind |-> Classify(e.status, e.code)]
    /\ UNCHANGED <<storage, location, req, cache, now, call, post, session,
                   lreq, ui, userPage, batch, apiHook, asyncHook, pager>>

InitClassify ==
    /\ storage = [adminToken |-> OldToken, adminUser |-> StoredUser,
                  refreshToken |-> Null, token |-> Null]
    /\ location = "/"
    /\ req = <<>>
    /\ cache = <<>>
    /\ now = 0
    /\ call = <<>>
    /\ post = <<>>
    /\ session = MountSession
    /\ lreq = [c \in Clients |-> IdleLreq]
    /\ ui = IdleUi
    /\ probe = IdleProbe
    /\ IdleComponents

NextClassify == \E e \in FailedResponses : SwitchOn(e)

SpecClassify == InitClassify /\ [][NextClassify]_vars

\* ------------------------------------------------------------------------
\* 7. Issuing a copy: UserPage, handleIssueBook and issuesAPI.issueBook
\* ------------------------------------------------------------------------

\* The largest quantity of a book.
MaxQuantity == 2

\* handleBookSelect: `if (book.availableQuantity > 0)`
CanSelectAny(qty) == TRUE
CanSelect(qty) == qty > 0

\* The submit button of UserPage is enabled.
SubmitEnabled(up) ==
    ~(up.selected.id = Null \/ up.submitting \/ up.selected.qty = 0)

\* fetchBooks of UserPage resolved: setBooks(response.books).
FetchBooksOk ==
    /\ ~userPage.loaded
    /\ userPage' = [userPage EXCEPT !.loaded = TRUE, !.books = userPage.server]
    /\ UNCHANGED <<storage, location, req, cache, now, call, post, session,
                   lreq, ui, probe, batch, apiHook, asyncHook, pager>>

\* Another reader issues or returns a copy: the server's quantity changes.
ServerChange(b, q) ==
    /\ q # userPage.server[b]
    /\ userPage' = [userPage EXCEPT !.server[b] = q]
    /\ UNCHANGED <<storage, location, req, cache, now, call, post, session,
                   lreq, ui, probe, batch, apiHook, asyncHook, pager>>

\* handleBookSelect(book): a click on a listed book.
HandleBookSelect(b) ==
    /\ userPage.loaded
    /\ userPage' =
           [userPage EXCEPT
               !.clicked = b,
               !.selected = IF CanSelect(userPage.books[b])
                            THEN [id |-> b, qty |-> userPage.books[b]]
                            ELSE @]
    /\ UNCHANGED <<storage, location, req, cache, now, call, post, session,
                   lreq, ui, probe, batch, apiHook, asyncHook, pager>>

\* onSubmit of UserPage: issuesAPI.issueBook(issueData) is awaited.
OnSubmit ==
    /\ SubmitEnabled(userPage)
    /\ userPage' =
           [userPage EXCEPT
               !.submitting = TRUE,
               !.pending = @ \cup {[from |-> "UserPage",
                                    id |-> userPage.selected.id,
                                    qty |-> userPage.selected.qty]}]
    /\ UNCHANGED <<storage, location, req, cache, now, call, post, session,
                   lreq, ui, probe, batch, apiHook, asyncHook, pager>>

\* handleIssueBook(bookId, userId) of the examples component:
\* issuesAPI.issueBook(issueData) is awaited.
HandleIssueBook(b) ==
    /\ userPage.loaded
    /\ \A q \in userPage.pending : q.from # "handleIssueBook"
    /\ userPage' =
           [userPage EXCEPT
               !.pending = @ \cup {[from |-> "handleIssueBook", id |-> b,
                                    qty |-> userPage.books[b]]}]
    /\ UNCHANGED <<storage, location, req, cache, now, call, post, session,
                   lreq, ui, probe, batch, apiHook, asyncHook, pager>>

\* The server issues the copy: the caller resets its form and fetches the
\* books again.
IssueOk(q) ==
    /\ q \in userPage.pending
    /\ userPage.server[q.id] > 0
    /\ userPage' =
           IF q.from = "UserPage"
           THEN [userPage EXCEPT !.pending = @ \ {q},
                                 !.server[q.id] = @ - 1,
                                 !.selected = NoBook,
                                 !.clicked = Null,
                                 !.submitting = FALSE,
                                 !.loaded = FALSE,
                                 !.last = "issued"]
           ELSE [userPage EXCEPT !.pending = @ \ {q},
                                 !.server[q.id] = @ - 1,
                                 !.loaded = FALSE,
                                 !.last = "issued"]
    /\ UNCHANGED <<storage, location, req, cache, now, call, post, session,
                   lreq, ui, probe, batch, apiHook, asyncHook, pager>>

\* The request fails (the server has no copy left, or any other error): a
\* toast (last records which toast was shown last).
IssueFail(q) ==
    /\ q \in userPage.pending
    /\ userPage' =
           IF q.from = "UserPage"
           THEN [userPage EXCEPT !.pending = @ \ {q}, !.submitting = FALSE,
                                 !.last = "failed"]
           ELSE [userPage EXCEPT !.pending = @ \ {q}, !.last = "failed"]
    /\ UNCHANGED <<storage, location, req, cache, now, call, post, session,
                   lreq, ui, probe, batch, apiHook, asyncHook, pager>>

InitIssue ==
    /\ storage = [adminToken |-> OldToken, adminUser |-> StoredUser,
                  refreshToken |-> Null, token |-> Null]
    /\ location = "/"
    /\ req = <<>>
    /\ cache = <<>>
    /\ now = 0
    /\ call = <<>>
    /\ post = <<>>
    /\ session = MountSession
    /\ lreq = [c \in Clients |-> IdleLreq]
    /\ ui = IdleUi
    /\ probe = IdleProbe
    /\ userPage \in {[IdleUserPage EXCEPT !.server = sv] :
                        sv \in [BookIds -> 0..MaxQuantity]}
    /\ batch = IdleBatch
    /\ apiHook = IdleApiHook
    /\ asyncHook = IdleAsyncHook
    /\ pager = IdlePager

NextIssue ==
    \/ FetchBooksOk
    \/ \E b \in BookIds, q \in 0..MaxQuantity : ServerChange(b, q)
    \/ \E b \in BookIds : HandleBookSelect(b)
    \/ OnSubmit
    \/ \E b \in BookIds : HandleIssueBook(b)
    \/ \E q \in userPage.pending : IssueOk(q)
    \/ \E q \in userPage.pending : IssueFail(q)

SpecIssue == InitIssue /\ [][NextIssue]_vars

\* ------------------------------------------------------------------------
\* 8. batchRequests
\* ------------------------------------------------------------------------

\* The longest list of requests a caller passes.
MaxBatch == 3

\* The errors a request of the batch may reject with.
BatchErrors == {"e404", "e500"}

\* The promises Promise.allSettled waits for, and what it reports for each.
PendingPromise == [status |-> "pending", value |-> [data |-> Null],
                   reason |-> Null]
Fulfilled(d) == [status |-> "fulfilled", value |-> [data |-> d],
                 reason |-> Null]
Rejected(e) == [status |-> "rejected", value |-> [data |-> Null],
                reason |-> e]

\* Promise.allSettled never rejects: the try block of batchRequests reaches
\* its return whatever the requests did.
RejectsOnAnyFailure(settled) ==
    \E i \in 1..Len(settled) : settled[i].status = "rejected"
BatchRejects(settled) == FALSE

\* responses.map((response, index) => ({index, success, data, error}))
BatchResult(settled) ==
    [i \in 1..Len(settled) |->
        [index |-> i - 1,
         success |-> settled[i].status = "fulfilled",
         data |-> IF settled[i].status = "fulfilled"
                  THEN settled[i].value.data ELSE Null,
         error |-> IF settled[i].status = "rejected"
                   THEN settled[i].reason ELSE Null]]

\* batchRequests(requests): every request is sent and allSettled awaited.
BatchCall(n) ==
    /\ batch.pc \in {"idle", "returned", "threw"}
    /\ batch' = [pc |-> "waiting", settled |-> [i \in 1..n |-> PendingPromise],
                 result |-> <<>>]
    /\ UNCHANGED <<storage, location, req, cache, now, call, post, session,
                   lreq, ui, probe, userPage, apiHook, asyncHook, pager>>

\* One request of the batch resolves or rejects.
BatchSettle(i, outcome) ==
    /\ batch.pc = "waiting"
    /\ i \in 1..Len(batch.settled)
    /\ batch.settled[i] = PendingPromise
    /\ batch' = [batch EXCEPT !.settled[i] = outcome]
    /\ UNCHANGED <<storage, location, req, cache, now, call, post, session,
                   lreq, ui, probe, userPage, apiHook, asyncHook, pager>>

\* Every request has settled: allSettled resolves and the list is mapped.
BatchReturn ==
    /\ batch.pc = "waiting"
    /\ \A i \in 1..Len(batch.settled) : batch.settled[i] # PendingPromise
    /\ batch' = IF BatchRejects(batch.settled)
                THEN [batch EXCEPT !.pc = "threw"]
                ELSE [batch EXCEPT !.pc = "returned",
                                   !.result = BatchResult(batch.settled)]
    /\ UNCHANGED <<storage, location, req, cache, now, call, post, session,
                   lreq, ui, probe, userPage, apiHook, asyncHook, pager>>

InitBatch ==
    /\ storage = [adminToken |-> OldToken, adminUser |-> StoredUser,
                  refreshToken |-> Null, token |-> Null]
    /\ location = "/"
    /\ req = <<>>
    /\ cache = <<>>
    /\ now = 0
    /\ call = <<>>
    /\ post = <<>>
    /\ session = MountSession
    /\ lreq = [c \in Clients |-> IdleLreq]
    /\ ui = IdleUi
    /\ probe = IdleProbe
    /\ IdleComponents

NextBatch ==
    \/ \E n \in 0..MaxBatch : BatchCall(n)
    \/ \E i \in 1..MaxBatch, d \in Payloads : BatchSettle(i, Fulfilled(d))
    \/ \E i \in 1..MaxBatch, e \in BatchErrors : BatchSettle(i, Rejected(e))
    \/ BatchReturn

SpecBatch == InitBatch /\ [][NextBatch]_vars

\* ------------------------------------------------------------------------
\* 9. useApi
\* ------------------------------------------------------------------------

\* The invocations of execute one component makes.
MaxExecutes == 3

\* execute(): `if (cancelRef.current) return;`, else setLoading(true),
\* setError(null) and the call of apiFunction (asked counts the invocations
\* of execute, calls the calls of apiFunction).
Execute(h) ==
    IF h.cancelRef
    THEN [h EXCEPT !.asked = @ + 1]
    ELSE [h EXCEPT !.asked = @ + 1,
                   !.calls = @ + 1,
                   !.inflight = @ \cup {h.calls + 1},
                   !.loading = TRUE,
                   !.error = Null]

\* The effect on `dependencies`: execute() when immediate.
DepsEffect(h) == IF h.immediate THEN Execute(h) ELSE h

\* The component mounts: both effects run.
ApiMount ==
    /\ apiHook.mounted = "no"
    /\ apiHook' = DepsEffect([apiHook EXCEPT !.mounted = "yes"])
    /\ UNCHANGED <<storage, location, req, cache, now, call, post, session,
                   lreq, ui, probe, userPage, batch, asyncHook, pager>>

\* A render with changed dependencies: the cleanup of the effect
\* (cancelRef.current = true), then the effect.
ApiDepsChange ==
    /\ apiHook.mounted = "yes"
    /\ apiHook.asked < MaxExecutes
    /\ apiHook' = DepsEffect([apiHook EXCEPT !.cancelRef = TRUE])
    /\ UNCHANGED <<storage, location, req, cache, now, call, post, session,
                   lreq, ui, probe, userPage, batch, asyncHook, pager>>

\* The component calls execute / refetch.
ApiExecute ==
    /\ apiHook.mounted = "yes"
    /\ apiHook.asked < MaxExecutes
    /\ apiHook' = Execute(apiHook)
    /\ UNCHANGED <<storage, location, req, cache, now, call, post, session,
                   lreq, ui, probe, userPage, batch, asyncHook, pager>>

\* apiFunction resolved: setData, onSuccess and the toast unless cancelled;
\* then the finally block.
ApiResolve(id, result) ==
    /\ id \in apiHook.inflight
    /\ apiHook' =
           IF apiHook.cancelRef
           THEN [apiHook EXCEPT !.inflight = @ \ {id}]
           ELSE [apiHook EXCEPT !.inflight = @ \ {id},
                                !.data = result,
                                !.notified = @ + 1,
                                !.loading = FALSE]
    /\ UNCHANGED <<storage, location, req, cache, now, call, post, session,
                   lreq, ui, probe, userPage, batch, asyncHook, pager>>

\* apiFunction rejected: setError, onError and the toast unless cancelled;
\* then the finally block.
ApiReject(id) ==
    /\ id \in apiHook.inflight
    /\ apiHook' =
           IF apiHook.cancelRef
           THEN [apiHook EXCEPT !.inflight = @ \ {id}]
           ELSE [apiHook EXCEPT !.inflight = @ \ {id},
                                !.error = "An error occurred",
                                !.notified = @ + 1,
                                !.loading = FALSE]
    /\ UNCHANGED <<storage, location, req, cache, now, call, post, session,
                   lreq, ui, probe, userPage, batch, asyncHook, pager>>

\* The component unmounts: the cleanups of both effects
\* (cancelRef.current = true).
ApiUnmount ==
    /\ apiHook.mounted = "yes"
    /\ apiHook' = [apiHook EXCEPT !.cancelRef = TRUE, !.mounted = "gone"]
    /\ UNCHANGED <<storage, location, req, cache, now, call, post, session,
                   lreq, ui, probe, userPage, batch, asyncHook, pager>>

InitApiHook ==
    /\ storage = [adminToken |-> OldToken, adminUser |-> StoredUser,
                  refreshToken |-> Null, token |-> Null]
    /\ location = "/"
    /\ req = <<>>
    /\ cache = <<>>
    /\ now = 0
    /\ call = <<>>
    /\ post = <<>>
    /\ session = MountSession
    /\ lreq = [c \in Clients |-> IdleLreq]
    /\ ui = IdleUi
    /\ probe = IdleProbe
    /\ userPage = IdleUserPage
    /\ batch = IdleBatch
    /\ apiHook \in {[IdleApiHook EXCEPT !.immediate = im] : im \in BOOLEAN}
    /\ asyncHook = IdleAsyncHook
    /\ pager = IdlePager

NextApiHook ==
    \/ ApiMount
    \/ ApiDepsChange
    \/ ApiExecute
    \/ \E id \in 1..MaxExecutes, result \in {"d1", "d2"} : ApiResolve(id, result)
    \/ \E id \in 1..MaxExecutes : ApiReject(id)
    \/ ApiUnmount

SpecApiHook == InitApiHook /\ [][NextApiHook]_vars

\* ------------------------------------------------------------------------
\* 10. useAsync
\* ------------------------------------------------------------------------

\* The invocations of execute one component makes.
MaxAsyncCalls == 3

\* execute() up to the await: setStatus('pending'), setData(null),
\* setError(null), then the call of asyncFunction.
AsyncStart(h) ==
    [h EXCEPT !.status = "pending",
              !.data = Null,
              !.error = Null,
              !.calls = @ + 1,
              !.inflight = @ \cup {h.calls + 1}]

\* The component mounts: the effect runs execute() when immediate.
AsyncMount ==
    /\ ~asyncHook.mounted
    /\ asyncHook' = IF asyncHook.immediate
                    THEN AsyncStart([asyncHook EXCEPT !.mounted = TRUE])
                    ELSE [asyncHook EXCEPT !.mounted = TRUE]
    /\ UNCHANGED <<storage, location, req, cache, now, call, post, session,
                   lreq, ui, probe, userPage, batch, apiHook, pager>>

\* The component calls execute.
AsyncExecute ==
    /\ asyncHook.mounted
    /\ asyncHook.calls < MaxAsyncCalls
    /\ asyncHook' = AsyncStart(asyncHook)
    /\ UNCHANGED <<storage, location, req, cache, now, call, post, session,
                   lreq, ui, probe, userPage, batch, apiHook, pager>>

\* asyncFunction resolved: setData(response), setStatus('success').
AsyncResolve(id, response) ==
    /\ id \in asyncHook.inflight
    /\ asyncHook' = [asyncHook EXCEPT !.inflight = @ \ {id},
                                      !.data = response,
                                      !.status = "success"]
    /\ UNCHANGED <<storage, location, req, cache, now, call, post, session,
                   lreq, ui, probe, userPage, batch, apiHook, pager>>

\* asyncFunction rejected: setError(error), setStatus('error').
AsyncReject(id) ==
    /\ id \in asyncHook.inflight
    /\ asyncHook' = [asyncHook EXCEPT !.inflight = @ \ {id},
                                      !.error = "error",
                                      !.status = "error"]
    /\ UNCHANGED <<storage, location, req, cache, now, call, post, session,
                   lreq, ui, probe, userPage, batch, apiHook, pager>>

InitAsyncHook ==
    /\ storage = [adminToken |-> OldToken, adminUser |-> StoredUser,
                  refreshToken |-> Null, token |-> Null]
    /\ location = "/"
    /\ req = <<>>
    /\ cache = <<>>
    /\ now = 0
    /\ call = <<>>
    /\ post = <<>>
    /\ session = MountSession
    /\ lreq = [c \in Clients |-> IdleLreq]
    /\ ui = IdleUi
    /\ probe = IdleProbe
    /\ userPage = IdleUserPage
    /\ batch = IdleBatch
    /\ apiHook = IdleApiHook
    /\ asyncHook \in {[IdleAsyncHook EXCEPT !.immediate = im] :
                          im \in BOOLEAN}
    /\ pager = IdlePager

NextAsyncHook ==
    \/ AsyncMount
    \/ AsyncExecute
    \/ \E id \in 1..MaxAsyncCalls, response \in {"d1", "d2"} :
           AsyncResolve(id, response)
    \/ \E id \in 1..MaxAsyncCalls : AsyncReject(id)

SpecAsyncHook == InitAsyncHook /\ [][NextAsyncHook]_vars

\* ------------------------------------------------------------------------
\* 11. usePagination
\* ------------------------------------------------------------------------

\* The longest data list, and the largest itemsPerPage.
MaxLength == 3
MaxItemsPerPage == 3

\* totalPages = Math.ceil(data.length / itemsPerPage), with data.length >= 0
\* and itemsPerPage >= 1.
TotalPages(pg) == (pg.length + pg.itemsPerPage - 1) \div pg.itemsPerPage

\* The length of currentData = data.slice(startIndex, endIndex); slice
\* clamps an index to the length of the array.
CurrentDataLength(pg) ==
    LET startIndex == (pg.currentPage - 1) * pg.itemsPerPage
        endIndex == startIndex + pg.itemsPerPage
        Clamp(i) == IF i < pg.length THEN i ELSE pg.length
    IN  Clamp(endIndex) - Clamp(startIndex)

\* The guard of goToPage.
PageAllowed(page, pg) ==
    page >= 1 /\ page <= TotalPages(pg)

\* goToPage(page): setCurrentPage(page) when the page is in range. (last
\* records the call.)
GoTo(pg, page) ==
    [pg EXCEPT !.currentPage = IF PageAllowed(page, pg) THEN page ELSE @,
               !.last = [op |-> "goToPage", page |-> page]]

GoToPage(page) ==
    /\ pager' = GoTo(pager, page)
    /\ UNCHANGED <<storage, location, req, cache, now, call, post, session,
                   lreq, ui, probe, userPage, batch, apiHook, asyncHook>>

\* nextPage(): goToPage(currentPage + 1).
NextPage ==
    /\ pager' = GoTo(pager, pager.currentPage + 1)
    /\ UNCHANGED <<storage, location, req, cache, now, call, post, session,
                   lreq, ui, probe, userPage, batch, apiHook, asyncHook>>

\* prevPage(): goToPage(currentPage - 1).
PrevPage ==
    /\ pager' = GoTo(pager, pager.currentPage - 1)
    /\ UNCHANGED <<storage, location, req, cache, now, call, post, session,
                   lreq, ui, probe, userPage, batch, apiHook, asyncHook>>

\* The component passes another data list: the render, then the effect on
\* [data.length], which runs only when the length differs.
SetData(length) ==
    /\ pager' = [pager EXCEPT
                     !.length = length,
                     !.currentPage = IF length # pager.length THEN 1 ELSE @,
                     !.last = [op |-> "data", page |-> 0]]
    /\ UNCHANGED <<storage, location, req, cache, now, call, post, session,
                   lreq, ui, probe, userPage, batch, apiHook, asyncHook>>

\* The component passes another itemsPerPage: the render; no effect depends
\* on itemsPerPage.
SetItemsPerPage(k) ==
    /\ k # pager.itemsPerPage
    /\ pager' = [pager EXCEPT !.itemsPerPage = k,
                              !.last = [op |-> "itemsPerPage", page |-> 0]]
    /\ UNCHANGED <<storage, location, req, cache, now, call, post, session,
                   lreq, ui, probe, userPage, batch, apiHook, asyncHook>>

InitPager ==
    /\ storage = [adminToken |-> OldToken, adminUser |-> StoredUser,
                  refreshToken |-> Null, token |-> Null]
    /\ location = "/"
    /\ req = <<>>
    /\ cache = <<>>
    /\ now = 0
    /\ call = <<>>
    /\ post = <<>>
    /\ session = MountSession
    /\ lreq = [c \in Clients |-> IdleLreq]
    /\ ui = IdleUi
    /\ probe = IdleProbe
    /\ userPage = IdleUserPage
    /\ batch = IdleBatch
    /\ apiHook = IdleApiHook
    /\ asyncHook = IdleAsyncHook
    /\ pager \in {[IdlePager EXCEPT !.length = n, !.itemsPerPage = k] :
                      n \in 0..MaxLength, k \in 1..MaxItemsPerPage}

NextPager ==
    \/ \E page \in 0..(MaxLength + 1) : GoToPage(page)
    \/ NextPage
    \/ PrevPage
    \/ \E length \in 0..MaxLength : SetData(length)
    \/ \E k \in 1..MaxItemsPerPage : SetItemsPerPage(k)

SpecPager == InitPager /\ [][NextPager]_vars

\* ------------------------------------------------------------------------
\* Properties of the interceptors (checked under Spec)
\* ------------------------------------------------------------------------

\* C1 (refresh-once): a request makes at most one call to the refresh
\* endpoint and is sent at most twice; when its first response and the
\* response to its re-send are both 401, it has made exactly one refresh
\* call and exactly one re-send, and it is rejected with the 401 error of
\* the request (it is not refreshing again).
C1_RefreshOnce ==
    \A r \in Reqs :
        /\ req[r].refreshes <= 1
        /\ req[r].sends <= 2
        /\ req[r].seen = <<401, 401>> =>
               /\ req[r].pc = "rejected"
               /\ req[r].refreshes = 1
               /\ req[r].sends = 2
               /\ req[r].err = HttpError(401)

C1_Witness ==
    \E r \in Reqs : req[r].seen = <<401, 401>> /\ req[r].pc = "rejected"

\* C6 (refresh success path): the step in which the refresh call returns
\* token t stores t as adminToken, leaves adminUser and refreshToken as they
\* were, and re-sends the request (its second send, after its one refresh
\* call) with Authorization: Bearer t; and a request whose re-send is
\* answered 2xx resolves for the caller.
C6_RefreshSuccess ==
    [][\A r \in Reqs :
          /\ (req[r].pc = "refreshing" /\ req'[r].pc = "sent") =>
                 /\ req'[r].newToken \in NewTokens
                 /\ storage'.adminToken = req'[r].newToken
                 /\ storage'.adminUser = storage.adminUser
                 /\ storage'.refreshToken = storage.refreshToken
                 /\ req'[r].auth = req'[r].newToken
                 /\ req'[r].sends = 2
                 /\ req'[r].refreshes = 1
          /\ req'[r].seen = <<401, 200>> =>
                 /\ req'[r].pc = "resolved"
                 /\ req'[r].sends = 2
                 /\ req'[r].refreshes = 1]_vars

C6_Witness ==
    \E r \in Reqs :
        /\ req[r].pc = "resolved"
        /\ req[r].seen = <<401, 200>>
        /\ req[r].newToken = "t2"
        /\ req[r].auth = "t2"
        /\ storage.adminToken = "t2"
        /\ storage.adminUser = StoredUser

\* C7 (refresh failure path): the step in which the refresh call fails
\* clears adminToken and adminUser, sets the location to /login, and
\* rejects the caller with the 401 error of the original request.
C7_RefreshFailure ==
    [][\A r \in Reqs :
          (req[r].pc = "refreshing" /\ req'[r].pc = "rejected") =>
              /\ storage'.adminToken = Null
              /\ storage'.adminUser = Null
              /\ location' = "/login"
              /\ req'[r].err = HttpError(401)]_vars

\* The part of C7 that the code keeps: storage is cleared and the
\* navigation signalled in the step that rejects the caller.
C7_ClearedBeforeRejection ==
    [][\A r \in Reqs :
          (req[r].pc = "refreshing" /\ req'[r].pc = "rejected") =>
              /\ storage'.adminToken = Null
              /\ storage'.adminUser = Null
              /\ location' = "/login"]_vars

\* C11 (error observer exactly once): a request that was rejected has
\* shown exactly one toast.
C11_ToastOnce ==
    \A r \in Reqs : req[r].pc = "rejected" => req[r].toasts = 1

\* The latest response a request has met.
LastSeen(r) == req[r].seen[Len(req[r].seen)]

\* C17 (no silent swallowing): the caller's promise is resolved only after a
\* 2xx response; a request that met a failure is in flight again only as the
\* re-send after a 401 and a successful refresh, waits for the refresh call
\* only after a 401, and is otherwise rejected.
C17_NoSwallow ==
    \A r \in Reqs :
        /\ req[r].pc \in {"idle", "sent", "refreshing", "resolved", "rejected"}
        /\ req[r].pc = "resolved" =>
               req[r].seen # <<>> /\ LastSeen(r) = 200
        /\ (req[r].pc = "sent" /\ req[r].seen # <<>>) =>
               LastSeen(r) = 401 /\ req[r].newToken # Null
        /\ req[r].pc = "refreshing" => LastSeen(r) = 401

\* A 403 and a re-send that failed after a successful refresh were both
\* rejected.
C17_Witness ==
    /\ req["r1"].pc = "rejected" /\ req["r1"].seen = <<403>>
    /\ req["r2"].pc = "rejected" /\ req["r2"].seen = <<401, 500>>

\* C22 (refresh de-duplication): at no time is more than one call to the
\* refresh endpoint outstanding.
C22_SingleRefresh ==
    Cardinality({r \in Reqs : req[r].pc = "refreshing"}) <= 1

\* C12 (cancellation): a request rejected by its cancellation has shown no
\* toast and was given no error kind, and the cache has no entry.
C12_CancelSilent ==
    \A r \in Reqs :
        (req[r].pc = "rejected" /\ req[r].err = CanceledError) =>
            /\ req[r].toasts = 0
            /\ req[r].kind = "none"
            /\ DOMAIN cache = {}

\* ------------------------------------------------------------------------
\* Properties of the cache (checked under SpecCache)
\* ------------------------------------------------------------------------

\* The step in which call c of apiWrapper.get starts, and the step in which
\* a write of kind op returns.
GetStarts(c) ==
    CanCall(c) /\ call'[c] # call[c] /\ call'[c].op = "get"
WriteReturns(c, op) ==
    call[c].pc = "inflight" /\ call[c].op = op /\ call'[c].pc = "returned"

\* C2 (cache hit): a get without skipCache whose key holds an entry younger
\* than CACHE_DURATION (the value an earlier get stored, which nothing has
\* removed) returns that entry's value and makes no network request.
C2_CacheHit ==
    [][\A c \in Calls :
          LET key == CacheKey(call'[c].url, call'[c].params)
          IN  (/\ GetStarts(c)
               /\ ~call'[c].skipCache
               /\ key \in DOMAIN cache
               /\ now - cache[key].timestamp < CACHE_DURATION) =>
                  /\ call'[c].pc = "returned"
                  /\ call'[c].ret = cache[key].data
                  /\ call'[c].net = 0]_vars

C4_DeleteInvalidates ==
    [][\A c \in Calls :
          WriteReturns(c, "delete") =>
              \A k \in KeysOfResource(call[c].url) : k \notin DOMAIN cache']_vars

\* C5 (invalidation is scoped): the step in which a put or a delete returns
\* leaves every cache entry of another resource as it was.
C5_ScopedInvalidation ==
    [][\A c \in Calls :
          (WriteReturns(c, "put") \/ WriteReturns(c, "delete")) =>
              \A k \in (DOMAIN cache) \ KeysOfResource(call[c].url) :
                  k \in DOMAIN cache' /\ cache'[k] = cache[k]]_vars

\* ------------------------------------------------------------------------
\* Properties of retryRequest (checked under SpecRetry)
\* ------------------------------------------------------------------------

\* C8, as stated: with maxRetries = 3 and delay = 1000, a call whose every
\* attempt fails has made four attempts, after waits of 0, 1000 and 2000 ms,
\* and throws the error of the fourth.
C8_FourAttempts ==
    \A p \in Posts :
        (post[p].maxRetries = 3 /\ post[p].pc = "threw") =>
            /\ post[p].attempts = 4
            /\ post[p].waits = <<0, 1000, 2000>>
            /\ post[p].err = 4

\* C8, amended: with maxRetries = 3 and delay = 1000, a call whose every
\* attempt fails has made three attempts, after waits of 1000 and 2000 ms
\* before the 2nd and the 3rd, and throws the error of the third (last).
C8_ThreeAttempts ==
    \A p \in Posts :
        (post[p].maxRetries = 3 /\ post[p].pc = "threw") =>
            /\ post[p].attempts = 3
            /\ post[p].waits = <<1000, 2000>>
            /\ post[p].err = 3

C8_Witness ==
    \E p \in Posts :
        /\ post[p].maxRetries = 3
        /\ post[p].delay = 1000
        /\ post[p].pc = "threw"
        /\ post[p].attempts = 3

\* C9 (backoff formula): the j-th wait of a call precedes its attempt j
\* (0-indexed) and lasts delay * 2^(j-1); attempt 0 is preceded by no wait,
\* so a call that has made n >= 1 attempts has waited n - 1 times (n times
\* while it waits for attempt n).
C9_Backoff ==
    \A p \in Posts :
        /\ \A j \in 1..Len(post[p].waits) :
               post[p].waits[j] = post[p].delay * Pow(2, j - 1)
        /\ post[p].pc = "wait" => Len(post[p].waits) = post[p].attempts
        /\ (post[p].pc # "wait" /\ post[p].attempts >= 1) =>
               Len(post[p].waits) = post[p].attempts - 1
        /\ post[p].attempts = 0 => post[p].waits = <<>>

C9_Witness ==
    \E p \in Posts :
        /\ post[p].pc = "attempt"
        /\ post[p].attempts = 4
        /\ post[p].waits = <<1000, 2000, 4000>>

\* C10 (retry is opt-in): a post whose config has no maxRetries invokes the
\* request at most once.
C10_RetryOptIn ==
    \A p \in Posts : ~post[p].explicit => post[p].attempts <= 1


\* C26 (retryRequest settles only with an outcome of the operation): a post
\* that returned had an attempt that succeeded, and a post that threw threw
\* the error of one of its attempts; none ends on retryRequest resolving
\* with no response to read.
C26_SettlesWithOutcome ==
    \A p \in Posts :
        /\ post[p].pc = "returned" => post[p].attempts >= 1
        /\ post[p].pc = "threw" =>
               /\ post[p].err # TypeError
               /\ post[p].err \in 1..post[p].attempts

\* ------------------------------------------------------------------------
\* Properties of the session
\* ------------------------------------------------------------------------

\* A request of one of the instances of libraryAPI / adminAPI, or of `api`
\* of advancedAxios.js, is sent in this step.
ClientSends(c) == lreq[c].pc # "sent" /\ lreq'[c].pc = "sent"
ApiSends(r) == req[r].pc # "sent" /\ req'[r].pc = "sent"

\* C13 (bearer attachment): every request that is sent, by whichever
\* instance, carries as its Authorization header the token the session store
\* holds at that moment (adminToken), and carries none only when the store
\* holds none.
C13_BearerAttached ==
    [][/\ \A c \in Clients :
              ClientSends(c) => lreq'[c].auth = storage'.adminToken
       /\ \A r \in Reqs :
              ApiSends(r) => req'[r].auth = storage'.adminToken]_vars

\* The persisted session slots (token and user) change in this step.
SlotsChange ==
    \/ storage'.adminToken # storage.adminToken
    \/ storage'.adminUser # storage.adminUser

\* The step is login or logout of the session store (logout also as
\* checkAuthStatus calls it).
LoginOrLogoutStep ==
    \/ \E t \in LoginTokens : Login(t, AdminUser)
    \/ Logout
    \/ \E how \in {"failed", "error"} : VerifyFail(how)

\* The step is the token refresh of the response interceptor settling
\* (the new token is stored, or the catch branch runs), the status switch
\* handling a 401, or the error handler of authApiClient handling a 401.
RefreshStep ==
    \E r \in Reqs :
        req[r].pc = "refreshing" /\ req'[r].pc \in {"sent", "rejected"}
Switch401Step ==
    \E r \in Reqs :
        req[r].pc = "sent" /\ req'[r].pc = "rejected"
            /\ req'[r].err.status = 401
AuthClient401Step ==
    /\ lreq["auth"].pc = "sent"
    /\ lreq'["auth"].pc = "rejected"
    /\ lreq'["auth"].status = 401

\* C14 as stated (session writers): the persisted slots change only in
\* login and logout.
C14_OnlyLoginLogout == [][SlotsChange => LoginOrLogoutStep]_vars

\* C14 as amended: the persisted slots change only in login and logout, in
\* the token refresh of the response interceptor, in its handling of a 401
\* and in the 401 handling of authApiClient; every other step leaves them.
C14_SessionWriters ==
    [][SlotsChange =>
           \/ LoginOrLogoutStep
           \/ RefreshStep
           \/ Switch401Step
           \/ AuthClient401Step]_vars

\* The response interceptor stored a refreshed token where login had stored
\* the session's.
C14_Witness ==
    \E r \in Reqs :
        /\ req[r].newToken # Null
        /\ storage.adminToken = req[r].newToken
        /\ session.token = OldToken

\* C23 (logout ends the session for good): after logout, and until login
\* is called again, the slot adminToken holds no token.
C23_LogoutFinal == session.loggedOut => storage.adminToken = Null

\* The steps of checkAuthStatus: the slots are read and the verification is
\* sent; the verification succeeds; it fails or throws.
VerifySentStep == session.pc = "mount" /\ session'.pc = "verifying"
VerifyOkStep ==
    session.pc = "verifying" /\ session'.pc = "done"
        /\ session'.outcome = "ok"
VerifyFailStep ==
    session.pc = "verifying" /\ session'.pc = "done"
        /\ session'.outcome \in {"failed", "error"}

\* The in-memory session and both persisted slots are cleared.
Cleared(se, st) ==
    /\ se.token = Null
    /\ se.user = Null
    /\ ~se.isAuthenticated
    /\ st.adminToken = Null
    /\ st.adminUser = Null

\* C15 as stated (session restore): while the verification is pending the
\* session is authenticated, a successful verification leaves it so, a
\* failed or throwing verification leaves the session and both slots
\* cleared, and isLoading eventually becomes false.
C15_RestoreImmediate ==
    /\ [](session.pc = "verifying" => session.isAuthenticated)
    /\ [][VerifyOkStep => session'.isAuthenticated]_vars
    /\ [][VerifyFailStep => Cleared(session', storage')]_vars
    /\ <>(~session.isLoading)

\* C15 as amended: sending the verification does not mark the session
\* authenticated; the successful verification does, with the saved token
\* and user; a failed or throwing verification leaves the session and both
\* slots cleared; and isLoading eventually becomes false.
C15_RestoreVerified ==
    /\ [][VerifySentStep =>
              session'.isAuthenticated = session.isAuthenticated]_vars
    /\ [][VerifyOkStep =>
              /\ session'.isAuthenticated
              /\ session'.token = session.savedToken
              /\ session'.user = JsonParse(session.savedUser)]_vars
    /\ [][VerifyFailStep => Cleared(session', storage')]_vars
    /\ <>(~session.isLoading)

\* A verification failed: the session and both slots are cleared and
\* isLoading is false.
C15_Witness ==
    /\ session.pc = "done"
    /\ session.outcome = "failed"
    /\ Cleared(session, storage)
    /\ ~session.isLoading

\* ------------------------------------------------------------------------
\* Properties of the status switch
\* ------------------------------------------------------------------------

\* The table of kinds by status.
KindByStatus ==
    (400 :> "BadRequest") @@ (401 :> "Unauthorized") @@ (403 :> "Forbidden")
        @@ (404 :> "NotFound") @@ (409 :> "Conflict")
        @@ (422 :> "Validation") @@ (429 :> "RateLimited")
        @@ (500 :> "ServerError") @@ (502 :> "ServiceUnavailable")
        @@ (503 :> "ServiceUnavailable") @@ (504 :> "ServiceUnavailable")

KindOf(e) ==
    IF e.status \in DOMAIN KindByStatus THEN KindByStatus[e.status]
    ELSE IF e.status = NoStatus /\ e.code = "ECONNABORTED" THEN "Timeout"
    ELSE IF e.status = NoStatus /\ e.code = "ERR_NETWORK" THEN "NetworkError"
    ELSE "Unknown"

\* C16 (status classification): the kind the switch reports for a failed
\* response is the one the table gives for its status, Timeout or
\* NetworkError for no response with the code ECONNABORTED or ERR_NETWORK,
\* and Unknown for anything else.
C16_Classified == probe.err # NoError => probe.kind = KindOf(probe.err)

\* A 503 was classified ServiceUnavailable.
C16_Witness == probe.err.status = 503 /\ probe.kind = "ServiceUnavailable"

\* ------------------------------------------------------------------------
\* Properties of the book search component
\* ------------------------------------------------------------------------

\* C18 (latest request wins): when the response to a request arrives after
\* the list already shows the result of a request issued later, the list is
\* left as it is.
C18_LatestWins ==
    [][\A p \in ui.pending :
           (p \notin ui'.pending /\ ui.books.from > p.id) =>
               ui'.books = ui.books]_vars

\* ------------------------------------------------------------------------
\* Properties of the cache's expiry and population
\* ------------------------------------------------------------------------

\* A get that went to the network returns in this step.
GetReturns(c) ==
    call[c].pc = "inflight" /\ call[c].op = "get" /\ call'[c].pc = "returned"

\* C19 (TTL expiry): a get without skipCache is served from the entry of its
\* key only while the entry is younger than CACHE_DURATION; when the entry
\* is CACHE_DURATION old or older the read removes it and the get goes to
\* the network; and when that request succeeds, its result is the entry of
\* the key, stamped with the time of the response.
C19_TtlExpiry ==
    [][\A c \in Calls :
          /\ LET key == CacheKey(call'[c].url, call'[c].params)
             IN  (GetStarts(c) /\ ~call'[c].skipCache
                      /\ key \in DOMAIN cache) =>
                     /\ call'[c].net = 0 =>
                            now - cache[key].timestamp < CACHE_DURATION
                     /\ now - cache[key].timestamp >= CACHE_DURATION =>
                            /\ call'[c].pc = "inflight"
                            /\ call'[c].net = 1
                            /\ key \notin DOMAIN cache'
          /\ LET key == CacheKey(call[c].url, call[c].params)
             IN  (GetReturns(c) /\ call[c].evicted = 1) =>
                     /\ key \in DOMAIN cache'
                     /\ cache'[key] =
                            [data |-> call'[c].ret, timestamp |-> now]]_vars

\* A put or a delete throws in this step.
WriteThrows(c) ==
    call[c].pc = "inflight" /\ call[c].op \in {"put", "delete"}
        /\ call'[c].pc = "threw"

\* C25 (a failed write leaves the cache untouched): the step in which a put
\* or a delete rejects removes and changes no cache entry, so what a get
\* would be served from the cache is the same before and after.
C25_FailedWrite ==
    [][\A c \in Calls :
           WriteThrows(c) =>
               /\ cache' = cache
               /\ \A k \in Keys :
                      getCachedData(cache', k, now') =
                          getCachedData(cache, k, now)]_vars

\* A put threw while the cache holds entries of the resource it names.
C25_Witness ==
    \E c \in Calls :
        /\ call[c].pc = "threw"
        /\ call[c].op = "put"
        /\ KeysOfResource(UrlBook7) \subseteq DOMAIN cache

\* A get that went to the network throws in this step.
GetThrows(c) ==
    call[c].pc = "inflight" /\ call[c].op = "get" /\ call'[c].pc = "threw"

\* The entry of key k is added or changed in this step.
Written(k) ==
    /\ k \in DOMAIN cache'
    /\ k \in DOMAIN cache => cache'[k] # cache[k]

\* C20 (cache population policy): a get with skipCache leaves the cache as
\* it is and goes to the network, and only a get without skipCache is served
\* from the cache, with the entry of its key; an entry is added or changed
\* only in the step in which a get without skipCache for that key returns
\* from the network, and it holds what the get returns; a get that throws
\* and a get with skipCache that returns leave the cache as it is.
C20_Population ==
    [][/\ \A c \in Calls :
              LET key == CacheKey(call'[c].url, call'[c].params)
              IN  GetStarts(c) =>
                      /\ call'[c].skipCache =>
                             cache' = cache /\ call'[c].net = 1
                      /\ call'[c].net = 0 =>
                             /\ ~call'[c].skipCache
                             /\ key \in DOMAIN cache
                             /\ call'[c].ret = cache[key].data
       /\ \A k \in DOMAIN cache' :
              Written(k) =>
                  \E c \in Calls :
                      /\ GetReturns(c)
                      /\ ~call[c].skipCache
                      /\ CacheKey(call[c].url, call[c].params) = k
                      /\ cache'[k].data = call'[c].ret
       /\ \A c \in Calls :
              (GetThrows(c) \/ (GetReturns(c) /\ call[c].skipCache)) =>
                  cache' = cache]_vars

\* The only call made so far, a get with skipCache, returned a payload from
\* the network and the cache has no entry.
C20_Witness ==
    /\ call["c1"].pc = "returned"
    /\ call["c1"].op = "get"
    /\ call["c1"].net = 1
    /\ call["c1"].ret = "p1"
    /\ call["c2"] = IdleCall
    /\ DOMAIN cache = {}

\* ------------------------------------------------------------------------
\* Properties of the session under overlapping decisions
\* ------------------------------------------------------------------------

\* C24 (verification does not overwrite a newer session decision): a
\* verification that fails after login established a session leaves that
\* session and its slots; a verification that succeeds after logout leaves
\* the session logged out; and in every state isAuthenticated holds only
\* while the persisted adminToken is the in-memory token.
C24_NoOverwrite ==
    /\ [][(VerifyFailStep /\ session.isAuthenticated) =>
              /\ session'.isAuthenticated
              /\ session'.token = session.token
              /\ storage' = storage]_vars
    /\ [][(VerifyOkStep /\ session.loggedOut) =>
              ~session'.isAuthenticated]_vars
    /\ [](session.isAuthenticated => storage.adminToken = session.token)

\* ------------------------------------------------------------------------
\* Properties of issuing a copy
\* ------------------------------------------------------------------------

\* C21 as stated (no client guard): no client code path refuses on the
\* locally known quantity: the book that was clicked is the book selected
\* for the issue request, whatever its quantity.
C21_NoClientGuard ==
    userPage.clicked # Null => userPage.selected.id = userPage.clicked

\* C21 as amended: issuesAPI.issueBook sends what it is given, but UserPage
\* selects a book only when its locally known quantity is positive, so every
\* issue request of UserPage is for a book whose locally known quantity was
\* positive when it was selected.
C21_GuardInUserPage ==
    /\ userPage.selected.id # Null => userPage.selected.qty > 0
    /\ \A q \in userPage.pending : q.from = "UserPage" => q.qty > 0

\* UserPage refused a book of quantity 0 while handleIssueBook's request for
\* a book of locally known quantity 0 is in flight.
C21_Witness ==
    /\ userPage.clicked # Null
    /\ userPage.books[userPage.clicked] = 0
    /\ userPage.selected = NoBook
    /\ \E q \in userPage.pending : q.from = "handleIssueBook" /\ q.qty = 0

\* ------------------------------------------------------------------------
\* Properties of batchRequests
\* ------------------------------------------------------------------------

\* C27 (batchRequests preserves shape and isolates failures): batchRequests
\* never rejects, and the list it returns has the length of the list of
\* requests; its element for request i carries the index of i and reports
\* the outcome of request i: success with the data of its response, or
\* failure with its error and data null.
C27_BatchShape ==
    /\ batch.pc # "threw"
    /\ batch.pc = "returned" =>
           /\ Len(batch.result) = Len(batch.settled)
           /\ \A i \in 1..Len(batch.settled) :
                  LET o == batch.settled[i]
                      r == batch.result[i]
                  IN  /\ r.index = i - 1
                      /\ o.status = "fulfilled" =>
                             /\ r.success
                             /\ r.data = o.value.data
                             /\ r.error = Null
                      /\ o.status = "rejected" =>
                             /\ ~r.success
                             /\ r.data = Null
                             /\ r.error = o.reason

\* A batch of three returned in which the second request failed and the
\* others succeeded.
C27_Witness ==
    /\ batch.pc = "returned"
    /\ Len(batch.result) = 3
    /\ batch.result[1].success
    /\ ~batch.result[2].success /\ batch.result[2].error = "e500"
    /\ batch.result[3].success /\ batch.result[3].data = "p1"

\* ------------------------------------------------------------------------
\* Properties of useApi
\* ------------------------------------------------------------------------

\* C28 (useApi re-executes on dependency change): while the component is
\* mounted, every invocation of execute (by the effect on a change of the
\* dependencies, or by the component) calls apiFunction, and every call that
\* settles while the component is mounted is reported: its result becomes
\* data, or its error is set, and the callback is notified.
C28_ReExecutes ==
    [][(apiHook.mounted = "yes" /\ apiHook'.mounted = "yes") =>
           /\ apiHook'.asked # apiHook.asked =>
                  apiHook'.calls = apiHook.calls + 1
           /\ apiHook'.inflight # apiHook.inflight
                  /\ apiHook'.calls = apiHook.calls =>
                  apiHook'.notified = apiHook.notified + 1]_vars

\* ------------------------------------------------------------------------
\* Properties of useAsync
\* ------------------------------------------------------------------------

\* C29 (useAsync status is consistent): in every state, status 'success'
\* comes with a null error, status 'error' with a non-null error, and the
\* status is 'pending' whenever a call of execute is still in flight.
C29_StatusConsistent ==
    /\ asyncHook.status = "success" => asyncHook.error = Null
    /\ asyncHook.status = "error" => asyncHook.error # Null
    /\ asyncHook.inflight # {} => asyncHook.status = "pending"

\* ------------------------------------------------------------------------
\* Properties of usePagination
\* ------------------------------------------------------------------------

\* C30 (usePagination keeps the page in range): once the effects of a
\* render have run, currentPage lies in 1..max(1, totalPages), so
\* currentData is non-empty whenever data is non-empty; and a call of
\* goToPage with a page outside 1..totalPages leaves currentPage unchanged.
C30_PageInRange ==
    /\ [](/\ pager.currentPage >= 1
          /\ pager.currentPage <= (IF TotalPages(pager) > 1
                                   THEN TotalPages(pager) ELSE 1)
          /\ pager.length > 0 => CurrentDataLength(pager) > 0)
    /\ [][(/\ pager'.last.op = "goToPage"
           /\ ~(pager'.last.page \in 1..TotalPages(pager)))
          => pager'.currentPage = pager.currentPage]_vars

====
